---- MODULE Spec2Model ----
(***************************************************************************)
(* Model of the Jordan country-brief dashboard (src/app.py).               *)
(*                                                                         *)
(* Text is a sequence of characters; a character is a one-element token.   *)
(* ASCII characters stand for themselves.  A Hangul syllable of the source *)
(* is written as its romanisation, so that the module stays ASCII:         *)
(*   guk U+AD6D   myeong U+BA85   su U+C218     do U+B3C4    myeon U+BA74  *)
(*   jeok U+C801  in U+C778       gu U+AD6C     yak U+C57D   man U+B9CC    *)
(*   eon U+C5B8   eo U+C5B4       jong U+C885   gyo U+AD50   ga U+AC00     *)
(*   hyeong U+D615 tae U+D0DC     eok U+C5B5    cheon U+CC9C dal U+B2EC    *)
(*   reo U+B7EC   dang U+B2F9     sil U+C2E4    jil U+C9C8   seong U+C131  *)
(*   jang U+C7A5  ryul U+B960     chul U+CD9C   ip U+C785    eop U+C5C5    *)
(*   cheong U+CCAD nyeon U+B144   eun U+C740    neun U+B294  jeon U+C804   *)
(*   che U+CCB4   ui U+C758       je U+C81C     jo U+C870    nong U+B18D   *)
(* "NL" is the line feed.                                                  *)
(*                                                                         *)
(* A float of the program is modelled as an exact decimal [n, d] meaning   *)
(* n / 10^d, kept canonical (no trailing zero digit), so 40.0 is [40, 0]   *)
(* and 7.49 is [749, 2].  Optional[T] is a sequence: <<>> is None and      *)
(* <<v>> is the value v.                                                   *)
(***************************************************************************)
EXTENDS Integers, Sequences, FiniteSets, TLC

VARIABLES
    pc,          \* position of the running script or of the call
    uploaded,    \* st.file_uploader value: None or the uploaded document
    use_default, \* the "use default path" checkbox
    fs,          \* content of DEFAULT_PDF_PATH on disk: None (no file) or a document
    cache,       \* st.cache_data memo: set of [file_bytes, file_path, text]
    acq,         \* outcome of the last extract_text_from_pdf call
    text,        \* module-level `text` (input of extract_indicators)
    ind,         \* outcome of extract_indicators: [raised, ind]
    shown,       \* elements rendered in the current run, in order
    runs,        \* number of script runs started
    arg,         \* string argument of the function applied
    ret          \* its return value

vars == <<pc, uploaded, use_default, fs, cache, acq, text, ind, shown, runs, arg, ret>>

None == <<>>
Some(v) == <<v>>
IsNone(o) == o = <<>>
IsSome(o) == o # <<>>
Val(o) == o[1]

(***************************************************************************)
(* Characters and the character classes of Python's re module.             *)
(***************************************************************************)
Digits == {"0", "1", "2", "3", "4", "5", "6", "7", "8", "9"}

Hangul == {"guk", "myeong", "su", "do", "myeon", "jeok", "in", "gu", "yak", "man",
           "eon", "eo", "jong", "gyo", "ga", "hyeong", "tae", "eok", "cheon", "dal",
           "reo", "dang", "sil", "jil", "seong", "jang", "ryul", "chul", "ip", "eop",
           "cheong", "nyeon", "eun", "neun", "jeon", "che", "ui", "je", "jo", "nong"}

AsciiLetters == {"G", "D", "P", "I", "C", "T", "k", "m", "a", "b", "d", "x"}

WhiteSpace == {" ", "NL"}

Punctuation == {":", ",", ".", "(", ")", "%", "~", "-", "+", "$", "#", "_", "/"}

\* Every character a text of the model holds.
Alphabet == Digits \cup Hangul \cup AsciiLetters \cup WhiteSpace \cup Punctuation

\* cls is <<"lit", c>> for a literal character, or the name of a class.
InClass(cls, c) ==
    IF cls[1] = "lit" THEN c = cls[2]
    ELSE CASE cls[1] = "s"   -> c \in WhiteSpace                       \* \s
           [] cls[1] = "d"   -> c \in Digits                           \* \d
           [] cls[1] = "w"   -> c \in Digits \cup AsciiLetters \cup Hangul \cup {"_"}  \* \w
           [] cls[1] = "dot" -> c # "NL"                               \* .
           [] cls[1] = "dc"  -> c \in Digits \cup {","}                \* [\d,]
           [] cls[1] = "dp"  -> c \in Digits \cup {"."}                \* [\d\.]
           [] cls[1] = "np"  -> c \notin {"(", "NL"}                   \* [^\(\n]
           [] cls[1] = "ncp" -> c \notin {")", "NL"}                   \* [^)\n]
           [] cls[1] = "ag"  -> c \in Digits \cup {"~", ".", "-"}      \* [0-9~\.\-]
           [] cls[1] = "en"  -> c \in {"eun", "neun"}                 \* [eun neun]

(***************************************************************************)
(* Regular expressions: a pattern is a sequence of nodes.                  *)
(***************************************************************************)
Unbounded == 0 - 1

Node(k, cls, min, max, greedy, g, body) ==
    [k |-> k, cls |-> cls, min |-> min, max |-> max, greedy |-> greedy, g |-> g, body |-> body]

L(c)        == Node("cls", <<"lit", c>>, 1, 1, TRUE, 0, <<>>)          \* c
One(cl)     == Node("cls", <<cl>>, 1, 1, TRUE, 0, <<>>)                \* [cl]
Star(cl)    == Node("cls", <<cl>>, 0, Unbounded, TRUE, 0, <<>>)        \* [cl]*
Plus(cl)    == Node("cls", <<cl>>, 1, Unbounded, TRUE, 0, <<>>)        \* [cl]+
LazyStar(cl) == Node("cls", <<cl>>, 0, Unbounded, FALSE, 0, <<>>)      \* [cl]*?
Times(cl, n) == Node("cls", <<cl>>, n, n, TRUE, 0, <<>>)               \* [cl]{n}
OptLit(c)   == Node("cls", <<"lit", c>>, 0, 1, TRUE, 0, <<>>)          \* c?
Open(g)     == Node("open", <<"lit", "">>, 0, 0, TRUE, g, <<>>)        \* (
Close(g)    == Node("close", <<"lit", "">>, 0, 0, TRUE, g, <<>>)       \* )
OptGroup(b) == Node("opt", <<"lit", "">>, 0, 0, TRUE, 0, b)            \* (?: b )?
WS          == Star("s")                                               \* \s*

MaxGroups == 4
NoCaps == [g \in 1..MaxGroups |-> <<0, 0>>]
NoMatch == [ok |-> FALSE, start |-> 0, end |-> 0, caps |-> NoCaps]

\* Length of the longest run of class characters of s from pos, at most max.
RunLen(cls, s, pos, max) ==
    LET run == CHOOSE r \in 0..(Len(s) + 1 - pos) :
                   /\ pos + r > Len(s) \/ ~InClass(cls, s[pos + r])
                   /\ \A j \in pos..(pos + r - 1) : InClass(cls, s[j])
    IN IF max # Unbounded /\ run > max THEN max ELSE run

\* No character belongs to both classes.
ClassesDisjoint(c1, c2) ==
    IF c1[1] = "lit" THEN ~InClass(c2, c1[2])
    ELSE IF c2[1] = "lit" THEN ~InClass(c1, c2[2])
    ELSE \A c \in Alphabet : ~(InClass(c1, c) /\ InClass(c2, c))

\* The class of the character the nodes of re must consume first: <<"end">>
\* when re consumes nothing and closed says nothing follows it, <<"any">>
\* when the first character is not forced.
RECURSIVE FirstClass(_, _)
FirstClass(re, closed) ==
    IF re = <<>> THEN (IF closed THEN <<"end">> ELSE <<"any">>)
    ELSE IF Head(re).k \in {"open", "close"} THEN FirstClass(Tail(re), closed)
    ELSE IF Head(re).k = "cls" /\ Head(re).min >= 1 THEN Head(re).cls
    ELSE <<"any">>

\* A quantifier never gives a character back when its count is fixed, or
\* when it is greedy and what follows cannot start with a character of its
\* class, or nothing follows.
NeverGivesBack(n, rest, closed) ==
    /\ n.k = "cls"
    /\ \/ n.min = n.max
       \/ /\ n.greedy
          /\ LET f == FirstClass(rest, closed)
             IN f = <<"end">> \/ (f # <<"any">> /\ ClassesDisjoint(n.cls, f))

\* The node takes exactly one character.
IsSingle(n) == n.k = "cls" /\ n.min = 1 /\ n.max = 1

\* The last node of the run of single-character nodes that starts at i.
LastSingle(re, i) ==
    CHOOSE j \in i..Len(re) :
        /\ \A m \in i..j : IsSingle(re[m])
        /\ j = Len(re) \/ ~IsSingle(re[j + 1])

\* The nodes a compiled pattern keeps: every node but the single-character
\* nodes that follow another.
Kept(re) == {i \in 1..Len(re) : ~IsSingle(re[i]) \/ i = 1 \/ ~IsSingle(re[i - 1])}

\* The n-th smallest element of S.
Nth(S, n) == CHOOSE i \in S : Cardinality({j \in S : j <= i}) = n

\* The pattern made ready for matching: each run of single-character nodes
\* gathered into one "seq" node that holds the run's classes in order, and
\* each quantifier that never gives back marked "run".
RECURSIVE CompileNodes(_, _)
CompileNode(re, i, closed) ==
    IF IsSingle(re[i])
    THEN Node("seq", <<"lit", "">>, 0, 0, TRUE, 0,
              [m \in 1..(LastSingle(re, i) - i + 1) |-> re[i + m - 1].cls])
    ELSE IF NeverGivesBack(re[i], SubSeq(re, i + 1, Len(re)), closed)
    THEN [re[i] EXCEPT !.k = "run"]
    ELSE IF re[i].k = "opt" THEN [re[i] EXCEPT !.body = CompileNodes(@, FALSE)]
    ELSE re[i]

CompileNodes(re, closed) ==
    [n \in 1..Cardinality(Kept(re)) |-> CompileNode(re, Nth(Kept(re), n), closed)]

Compile(re) == CompileNodes(re, TRUE) \o <<Node("end", <<"lit", "">>, 0, 0, TRUE, 0, <<>>)>>

\* The first match of two alternatives.
OrElse(r, alt) == IF r.ok THEN r ELSE alt

\* Of the matches found for the counts a quantifier may take, the one with the
\* largest count (greedy) or the smallest (lazy).
PickCount(good, greedy) ==
    IF good = {} THEN NoMatch
    ELSE IF greedy THEN (CHOOSE x \in good : \A y \in good : x.c >= y.c).r
    ELSE (CHOOSE x \in good : \A y \in good : x.c <= y.c).r

\* The characters of s from pos are in the classes of body, one each.
SeqAt(body, s, pos) ==
    /\ pos + Len(body) - 1 <= Len(s)
    /\ \A i \in 1..Len(body) : InClass(body[i], s[pos + i - 1])

\* Backtracking match of the nodes k.. of the compiled pattern re against s
\* from pos, in the pattern's priority order: first with an optional group,
\* then without; a greedy quantifier takes the longest run the rest of the
\* pattern accepts, a lazy one the shortest.
RECURSIVE MatchAt(_, _, _, _, _)
MatchAt(re, k, s, pos, caps) ==
    CASE re[k].k = "end" -> [ok |-> TRUE, start |-> 0, end |-> pos, caps |-> caps]
      [] re[k].k = "seq" /\ SeqAt(re[k].body, s, pos) ->
             MatchAt(re, k + 1, s, pos + Len(re[k].body), caps)
      [] re[k].k = "run" /\ RunLen(re[k].cls, s, pos, re[k].max) >= re[k].min ->
             MatchAt(re, k + 1, s, pos + RunLen(re[k].cls, s, pos, re[k].max), caps)
      [] re[k].k = "open" ->
             MatchAt(re, k + 1, s, pos, [caps EXCEPT ![re[k].g] = <<pos, 0>>])
      [] re[k].k = "close" ->
             MatchAt(re, k + 1, s, pos, [caps EXCEPT ![re[k].g] = <<caps[re[k].g][1], pos>>])
      [] re[k].k = "opt" ->
             OrElse(MatchAt(re[k].body \o SubSeq(re, k + 1, Len(re)), 1, s, pos, caps),
                    MatchAt(re, k + 1, s, pos, caps))
      [] re[k].k = "cls" ->
             PickCount({x \in {[c |-> c, r |-> MatchAt(re, k + 1, s, pos + c, caps)] :
                                  c \in re[k].min..RunLen(re[k].cls, s, pos, re[k].max)} : x.r.ok},
                       re[k].greedy)
      [] OTHER -> NoMatch

\* re.match: the compiled pattern at the start of s.
ReMatch(re, s) == [MatchAt(re, 1, s, 1, NoCaps) EXCEPT !.start = 1]

\* The character every match of re starts with, "" when re has none.
RECURSIVE FirstLit(_)
FirstLit(re) ==
    IF re = <<>> THEN ""
    ELSE IF Head(re).k = "open" THEN FirstLit(Tail(re))
    ELSE IF Head(re).k = "seq" /\ Head(re).body[1][1] = "lit" THEN Head(re).body[1][2]
    ELSE ""

\* Of the matches found at the start positions, the leftmost.
Leftmost(found) ==
    IF found = {} THEN NoMatch ELSE CHOOSE x \in found : \A y \in found : x.start <= y.start

SearchWith(re, s, first) ==
    Leftmost({r \in {[MatchAt(re, 1, s, i, NoCaps) EXCEPT !.start = i] :
                        i \in {j \in 1..(Len(s) + 1) :
                                  first # "" => (j <= Len(s) /\ s[j] = first)}} : r.ok})

\* re.search: the match of the compiled pattern at the leftmost position that
\* has one.  Only a position that holds the pattern's first literal can start
\* a match.
ReSearch(re, s) == SearchWith(re, s, FirstLit(re))

\* m.group(g): None when the group took no part in the match.
HasGroup(m, g) == m.caps[g][1] # 0 /\ m.caps[g][2] # 0
Group(m, s, g) == SubSeq(s, m.caps[g][1], m.caps[g][2] - 1)

(***************************************************************************)
(* Strings.                                                                *)
(***************************************************************************)
\* str.replace(c, ""): s without the character c.
Remove(s, c) == SelectSeq(s, LAMBDA x : x # c)

\* str.strip(): s without its leading and trailing white space.
RECURSIVE LStrip(_), RStrip(_)
LStrip(s) == IF s # <<>> /\ Head(s) \in WhiteSpace THEN LStrip(Tail(s)) ELSE s
RStrip(s) == IF s # <<>> /\ s[Len(s)] \in WhiteSpace THEN RStrip(SubSeq(s, 1, Len(s) - 1)) ELSE s
Strip(s) == RStrip(LStrip(s))

\* "sep".join(parts)
RECURSIVE Join(_, _)
Join(sep, parts) ==
    IF parts = <<>> THEN <<>>
    ELSE IF Len(parts) = 1 THEN parts[1]
    ELSE parts[1] \o sep \o Join(sep, Tail(parts))

DigitVal(c) ==
    CASE c = "0" -> 0 [] c = "1" -> 1 [] c = "2" -> 2 [] c = "3" -> 3 [] c = "4" -> 4
      [] c = "5" -> 5 [] c = "6" -> 6 [] c = "7" -> 7 [] c = "8" -> 8 [] c = "9" -> 9

\* The value of a string of decimal digits (0 for the empty string).
RECURSIVE DigitsToInt(_)
DigitsToInt(ds) ==
    IF ds = <<>> THEN 0
    ELSE 10 * DigitsToInt(SubSeq(ds, 1, Len(ds) - 1)) + DigitVal(ds[Len(ds)])

AllIn(s, S) == \A i \in 1..Len(s) : s[i] \in S

\* int(s) for s over digits: the value, or a ValueError (None here) for "".
PyInt(s) == IF s # <<>> /\ AllIn(s, Digits) THEN Some(DigitsToInt(s)) ELSE None

(***************************************************************************)
(* Decimals: [n, d] is n / 10^d.                                           *)
(***************************************************************************)
RECURSIVE Pow10(_)
Pow10(k) == IF k = 0 THEN 1 ELSE 10 * Pow10(k - 1)

RECURSIVE Canon(_)
Canon(x) == IF x.d > 0 /\ x.n % 10 = 0 THEN Canon([n |-> x.n \div 10, d |-> x.d - 1]) ELSE x

Dec(n, d) == Canon([n |-> n, d |-> d])
Max2(a, b) == IF a >= b THEN a ELSE b
Scaled(x, d) == x.n * Pow10(d - x.d)
DecAdd(x, y) == LET d == Max2(x.d, y.d) IN Dec(Scaled(x, d) + Scaled(y, d), d)
DecSub(x, y) == LET d == Max2(x.d, y.d) IN Dec(Scaled(x, d) - Scaled(y, d), d)
DecHalf(x) == Dec(x.n * 5, x.d + 1)

\* round(x, nd): x when it has at most nd decimals, else rounded half to even.
Round(x, nd) ==
    IF x.d <= nd THEN Canon(x)
    ELSE LET p == Pow10(x.d - nd)
             q == x.n \div p
             r == x.n % p
             up == 2 * r > p \/ (2 * r = p /\ q % 2 = 1)
         IN Dec(IF up THEN q + 1 ELSE q, nd)

(***************************************************************************)
(* Utilities (src/app.py).                                                 *)
(***************************************************************************)
\* float(x) for x over the model's characters: [sign] digits [. digits] with at
\* least one digit; anything else is a ValueError.
IsFloatLiteral(x) ==
    LET body == IF x # <<>> /\ Head(x) \in {"-", "+"} THEN Tail(x) ELSE x
        dots == SelectSeq(body, LAMBDA c : c = ".")
    IN /\ AllIn(body, Digits \cup {"."})
       /\ Len(dots) <= 1
       /\ Len(body) > Len(dots)

FloatValue(x) ==
    LET neg == Head(x) = "-"
        body == IF Head(x) \in {"-", "+"} THEN Tail(x) ELSE x
        dot == IF \E i \in 1..Len(body) : body[i] = "."
               THEN CHOOSE i \in 1..Len(body) : body[i] = "." ELSE Len(body) + 1
        mag == DigitsToInt(Remove(body, "."))
        nd == IF dot > Len(body) THEN 0 ELSE Len(body) - dot
    IN Dec(IF neg THEN 0 - mag ELSE mag, nd)

safe_float(x) == IF IsFloatLiteral(Strip(x)) THEN Some(FloatValue(Strip(x))) ELSE None

\* (\d+)\s*eok(?:\s*(\d+)\s*cheon man)?
AmountRe ==
    Compile(<<Open(1), Plus("d"), Close(1), WS, L("eok"),
          OptGroup(<<WS, Open(2), Plus("d"), Close(2), WS, L("cheon"), L("man")>>)>>)

parse_korean_amountZeroDefault(s) ==
    LET t == Strip(Remove(s, ","))
        m == ReSearch(AmountRe, t)
    IN IF ~m.ok THEN Some(Dec(0, 0))
       ELSE LET eok == DigitsToInt(Group(m, t, 1))
                cheonman == IF HasGroup(m, 2) /\ Group(m, t, 2) # <<>>
                            THEN DigitsToInt(Group(m, t, 2)) ELSE 0
            IN Some(Round(DecAdd(Dec(eok, 1), Dec(cheonman, 2)), 4))

parse_korean_amount_to_usd_billion(s) ==
    LET t == Strip(Remove(s, ","))
        m == ReSearch(AmountRe, t)
    IN IF ~m.ok THEN None
       ELSE LET eok == DigitsToInt(Group(m, t, 1))
                cheonman == IF HasGroup(m, 2) /\ Group(m, t, 2) # <<>>
                            THEN DigitsToInt(Group(m, t, 2)) ELSE 0
            IN Some(Round(DecAdd(Dec(eok, 1), Dec(cheonman, 2)), 4))

format_optional(value) == IF IsNone(value) THEN <<"N/A">> ELSE value

(***************************************************************************)
(* Initial values of the state a specification does not use.               *)
(***************************************************************************)
NoCall == [kind |-> "none", text |-> <<>>]
NoResult == [raised |-> FALSE, ind |-> None]

Idle ==
    /\ uploaded = None
    /\ use_default = TRUE
    /\ fs = None
    /\ cache = {}
    /\ acq = NoCall
    /\ text = None
    /\ ind = NoResult
    /\ shown = <<>>
    /\ runs = 0

StringsUpTo(A, n) == UNION {[1..k -> A] : k \in 0..n}

(***************************************************************************)
(* SpecAmount: parse_korean_amount_to_usd_billion applied to bounded       *)
(* inputs.                                                                 *)
(***************************************************************************)
MaxAmountLen == 4
MaxDigits == 2

AmountAlphabet == {"7", "4", "eok", "cheon", "man", " ", ",", "x"}
AmountDigits == {"0", "4", "7", "9"}
NumStrings == StringsUpTo(AmountDigits, MaxDigits) \ {<<>>}

\* The examples of the function's docstring, and strings without a unit token.
AmountExamples ==
    { <<"7", "4", "eok", " ", "9", "cheon", "man">>,
      <<"2", "0", "4", "eok", " ", "6", "cheon", "man">>,
      <<"4", "0", "0", "eok">>,
      <<"b", "a", "d", " ", "d", "a", "x", "a">>,
      <<"1", ",", "2", "3", "4", "eok", " ", "5", "cheon", "man">> }

AmountInputs ==
    StringsUpTo(AmountAlphabet, MaxAmountLen)
      \cup {n \o <<"eok">> : n \in NumStrings}
      \cup {n \o <<"eok", " ">> \o m \o <<"cheon", "man">> : n \in NumStrings, m \in NumStrings}
      \cup AmountExamples

AmountInit ==
    /\ Idle
    /\ pc = "amount_input"
    /\ arg \in AmountInputs
    /\ ret = None

CallParseAmount ==
    /\ pc = "amount_input"
    /\ ret' = parse_korean_amount_to_usd_billion(arg)
    /\ pc' = "amount_returned"
    /\ UNCHANGED <<uploaded, use_default, fs, cache, acq, text, ind, shown, runs, arg>>

AmountNext == CallParseAmount

SpecAmount == AmountInit /\ [][AmountNext]_vars

\* The string is '<N>eok': digits, then the eok token, nothing else.
IsEokForm(s) ==
    /\ Len(s) >= 2
    /\ s[Len(s)] = "eok"
    /\ AllIn(SubSeq(s, 1, Len(s) - 1), Digits)

\* The string is '<N>eok <M>cheon man' with one space.
IsEokCheonmanForm(s) ==
    \E i \in 2..Len(s) :
        /\ s[i] = "eok"
        /\ AllIn(SubSeq(s, 1, i - 1), Digits)
        /\ Len(s) >= i + 4
        /\ s[i + 1] = " "
        /\ AllIn(SubSeq(s, i + 2, Len(s) - 2), Digits)
        /\ s[Len(s) - 1] = "cheon"
        /\ s[Len(s)] = "man"

EokOf(s) == DigitsToInt(SubSeq(s, 1, (CHOOSE i \in 1..Len(s) : s[i] = "eok") - 1))
CheonmanOf(s) == DigitsToInt(SubSeq(s, (CHOOSE i \in 1..Len(s) : s[i] = "eok") + 2, Len(s) - 2))

ContainsUnitToken(s) ==
    \E i \in 1..Len(s) :
        \/ s[i] = "eok"
        \/ (s[i] = "cheon" /\ i < Len(s) /\ s[i + 1] = "man")

\* C1: for '<N>eok' the result is N/10, for '<N>eok <M>cheon man' it is
\* N/10 + M/100 (in hundredths: 10 N + M), and for a string that contains
\* neither unit token the result is None, never 0.
C1_AmountConversion ==
    pc = "amount_returned" =>
        /\ IsEokForm(arg) => ret = Some(Dec(10 * EokOf(arg), 2))
        /\ IsEokCheonmanForm(arg) => ret = Some(Dec(10 * EokOf(arg) + CheonmanOf(arg), 2))
        /\ ~ContainsUnitToken(arg) => ret = None

\* C1 witness: "74eok 9cheonman" has been parsed to 7.49.
C1_Witness ==
    /\ pc = "amount_returned"
    /\ arg = <<"7", "4", "eok", " ", "9", "cheon", "man">>
    /\ ret = Some([n |-> 749, d |-> 2])

(***************************************************************************)
(* The field rules of extract_indicators (src/app.py).                     *)
(***************************************************************************)
\* [\d,]+\s*eok(?:\s*\d+\s*cheon man)?
AmountGroupRe ==
    <<Plus("dc"), WS, L("eok"), OptGroup(<<WS, Plus("d"), WS, L("cheon"), L("man")>>)>>

\* \s*dal reo\((\d{4})\)  with the year in group g
DollarYearRe(g) ==
    <<WS, L("dal"), L("reo"), L("("), Open(g), Times("d", 4), Close(g), L(")")>>

\* <label>\s*:\s*(.+)
CaptureLineRe(label) == label \o <<WS, L(":"), WS, Open(1), Plus("dot"), Close(1)>>

CountryRe ==
    Compile(CaptureLineRe(<<L("guk"), WS, L("myeong")>>))

CapitalRe ==
    Compile(<<L("su"), WS, L("do"), WS, L(":"), WS, Open(1), Plus("np"), Close(1),
          L("("), Open(2), Plus("ncp"), Close(2), L(")")>>)

AreaRe ==
    Compile(<<L("myeon"), WS, L("jeok"), WS, L(":"), WS, Open(1), Plus("dc"), Close(1),
          WS, L("k"), L("m"), L("2")>>)

PopulationRe ==
    Compile(<<L("in"), WS, L("gu"), WS, L(":"), WS, L("yak"), WS, Open(1), Plus("dc"), Close(1),
          WS, L("man"), WS, L("myeong")>>)

LanguageRe ==
    Compile(CaptureLineRe(<<L("eon"), WS, L("eo")>>))

ReligionRe ==
    Compile(CaptureLineRe(<<L("jong"), WS, L("gyo")>>))

GovernmentRe ==
    Compile(CaptureLineRe(<<L("guk"), L("ga"), WS, L("hyeong"), L("tae")>>))

GdpRe ==
    Compile(<<L("G"), L("D"), L("P"), WS, L(":"), WS, Open(1)>> \o AmountGroupRe \o <<Close(1)>>
          \o DollarYearRe(2))

GdpPerCapitaRe ==
    Compile(<<L("1"), L("in"), L("dang"), WS, L("G"), L("D"), L("P"), WS, L(":"), WS,
          Open(1), Plus("dc"), Close(1), WS, L("dal"), Star("w"), WS, OptLit("("),
          OptGroup(<<Open(2), Times("d", 4), Close(2)>>)>>)

GrowthLabelRe ==
    <<L("sil"), L("jil"), WS, L("G"), L("D"), L("P"), WS, L("seong"), L("jang"), L("ryul"),
      WS, L(":"), WS, Open(1), Plus("dp"), Close(1), WS, L("("), L("%")>>

GrowthRe ==
    Compile(GrowthLabelRe \o <<WS, Open(2), Times("d", 4), Close(2), L(")")>>)

GrowthFallbackRe ==
    Compile(GrowthLabelRe \o <<Open(2), Times("d", 4), Close(2), L(")")>>)

TradeRe ==
    Compile(<<L("su"), L("chul"), WS, Open(1)>> \o AmountGroupRe \o <<Close(1)>> \o DollarYearRe(2)
          \o <<WS, L(","), WS, L("su"), L("ip"), WS, Open(3)>> \o AmountGroupRe \o <<Close(3)>>
          \o DollarYearRe(4))

UnemploymentRe ==
    Compile(<<L("sil"), L("eop"), L("ryul"), WS, L(":"), WS, Open(1), Plus("dp"), Close(1),
          L("%"), L("("), Open(2), Times("d", 4), Close(2), L(")")>>)

YouthRe ==
    Compile(<<L("cheong"), L("nyeon"), L("sil"), L("eop"), L("ryul"), One("en"), WS,
          Open(1), Plus("dp"), Close(1), L("%")>>)

SectorRe ==
    Compile(<<L("jeon"), L("che"), WS, L("G"), L("D"), L("P"), L("ui"), WS, L("yak"), WS,
          Open(1), Plus("dp"), Close(1), L("%"), LazyStar("dot"),
          L("je"), L("jo"), L("eop"), L("eun"), WS, L("G"), L("D"), L("P"), L("ui"), WS,
          Open(2), Plus("dp"), Close(2), L("%"), WS, L(","), WS, L("I"), L("C"), L("T"), WS,
          Open(3), Plus("dp"), Close(3), L("%"), WS, L(","), WS, L("nong"), L("eop"), L("eun"), WS,
          Open(4), Plus("ag"), Close(4), L("%")>>)

\* JordanIndicators(): every field None.
EmptyIndicators ==
    [country_name |-> None, capital |-> None, capital_population_hint |-> None,
     area_km2 |-> None, population_million |-> None,
     language |-> None, religion |-> None, government_form |-> None,
     gdp_year |-> None, gdp_usd_billion |-> None,
     gdp_per_capita_year |-> None, gdp_per_capita_usd |-> None,
     real_gdp_growth_year |-> None, real_gdp_growth_pct |-> None,
     trade_year |-> None, export_usd_billion |-> None, import_usd_billion |-> None,
     unemployment_year |-> None, unemployment_pct |-> None, youth_unemployment_pct |-> None,
     sector_fin_public_pct |-> None, sector_manufacturing_pct |-> None,
     sector_ict_pct |-> None, sector_agri_pct_range |-> None]

\* The match the growth rule uses: the first pattern, else the fallback.
GrowthSearch(t) == OrElse(ReSearch(GrowthRe, t), ReSearch(GrowthFallbackRe, t))

\* int(m.group(g).replace(",", ""))
IntGroup(m, t, g) == PyInt(Remove(Group(m, t, g), ","))

\* The youth sub-rule, searched for on the whole text.
YouthSearchAlways(t, primary) == ReSearch(YouthRe, t)

\* The youth sub-rule is searched for only inside the primary rule's `if m:`.
YouthSearch(t, primary) == IF primary.ok THEN ReSearch(YouthRe, t) ELSE NoMatch

\* The record extract_indicators builds from the matches of its rules:
\* [raised |-> TRUE] when an int() conversion raises ValueError.
FromMatches(t, mCountry, mCapital, mArea, mPop, mLang, mRel, mGov, mGdp, mPc, mGrowth, mTrade, mUnemp, mYouth, mSector) ==
    LET Text1(m, g) == IF m.ok THEN Some(Strip(Group(m, t, g))) ELSE None
        Year(m, g) == IF m.ok THEN Some(DigitsToInt(Group(m, t, g))) ELSE None
        Float(m, g) == IF m.ok THEN safe_float(Group(m, t, g)) ELSE None
        Amount(m, g) == IF m.ok THEN parse_korean_amount_to_usd_billion(Group(m, t, g)) ELSE None
        raises == \/ mArea.ok /\ IsNone(IntGroup(mArea, t, 1))
                  \/ mPop.ok /\ IsNone(IntGroup(mPop, t, 1))
                  \/ mPc.ok /\ IsNone(IntGroup(mPc, t, 1))
    IN IF raises THEN [raised |-> TRUE, ind |-> None]
       ELSE [raised |-> FALSE, ind |-> Some(
            [country_name |-> Text1(mCountry, 1),
             capital |-> Text1(mCapital, 1),
             capital_population_hint |-> Text1(mCapital, 2),
             area_km2 |-> IF mArea.ok THEN IntGroup(mArea, t, 1) ELSE None,
             population_million |->
                 IF mPop.ok THEN Some(Round(Dec(Val(IntGroup(mPop, t, 1)), 2), 4)) ELSE None,
             language |-> Text1(mLang, 1),
             religion |-> Text1(mRel, 1),
             government_form |-> Text1(mGov, 1),
             gdp_year |-> Year(mGdp, 2),
             gdp_usd_billion |-> Amount(mGdp, 1),
             gdp_per_capita_year |-> IF mPc.ok /\ HasGroup(mPc, 2) THEN Year(mPc, 2) ELSE None,
             gdp_per_capita_usd |-> IF mPc.ok THEN IntGroup(mPc, t, 1) ELSE None,
             real_gdp_growth_year |-> Year(mGrowth, 2),
             real_gdp_growth_pct |-> Float(mGrowth, 1),
             trade_year |-> Year(mTrade, 2),
             export_usd_billion |-> Amount(mTrade, 1),
             import_usd_billion |-> Amount(mTrade, 3),
             unemployment_year |-> Year(mUnemp, 2),
             unemployment_pct |-> Float(mUnemp, 1),
             youth_unemployment_pct |-> Float(mYouth, 1),
             sector_fin_public_pct |-> Float(mSector, 1),
             sector_manufacturing_pct |-> Float(mSector, 2),
             sector_ict_pct |-> Float(mSector, 3),
             sector_agri_pct_range |-> Text1(mSector, 4)])]

\* extract_indicators with an early return when the GDP rule finds nothing: the
\* rules after it are then never tried.
extract_indicatorsEarlyReturn(t) ==
    FromMatches(t, ReSearch(CountryRe, t), ReSearch(CapitalRe, t), ReSearch(AreaRe, t),
                ReSearch(PopulationRe, t), ReSearch(LanguageRe, t), ReSearch(ReligionRe, t),
                ReSearch(GovernmentRe, t), ReSearch(GdpRe, t),
                IF ReSearch(GdpRe, t).ok THEN ReSearch(GdpPerCapitaRe, t) ELSE NoMatch,
                IF ReSearch(GdpRe, t).ok THEN GrowthSearch(t) ELSE NoMatch,
                IF ReSearch(GdpRe, t).ok THEN ReSearch(TradeRe, t) ELSE NoMatch,
                IF ReSearch(GdpRe, t).ok THEN ReSearch(UnemploymentRe, t) ELSE NoMatch,
                IF ReSearch(GdpRe, t).ok THEN YouthSearch(t, ReSearch(UnemploymentRe, t)) ELSE NoMatch,
                IF ReSearch(GdpRe, t).ok THEN ReSearch(SectorRe, t) ELSE NoMatch)

\* extract_indicators(text)
extract_indicators(t) ==
    FromMatches(t, ReSearch(CountryRe, t), ReSearch(CapitalRe, t), ReSearch(AreaRe, t),
                ReSearch(PopulationRe, t), ReSearch(LanguageRe, t), ReSearch(ReligionRe, t),
                ReSearch(GovernmentRe, t), ReSearch(GdpRe, t), ReSearch(GdpPerCapitaRe, t),
                GrowthSearch(t), ReSearch(TradeRe, t), ReSearch(UnemploymentRe, t),
                YouthSearch(t, ReSearch(UnemploymentRe, t)), ReSearch(SectorRe, t))

(***************************************************************************)
(* Derived values and rendering (src/app.py).                              *)
(***************************************************************************)
\* trade_balance_usd_billion with an absent operand read as 0.
trade_balanceAbsentAsZero(self) ==
    LET e == IF IsNone(self.export_usd_billion) THEN Dec(0, 0) ELSE Val(self.export_usd_billion)
        i == IF IsNone(self.import_usd_billion) THEN Dec(0, 0) ELSE Val(self.import_usd_billion)
    IN Some(Round(DecSub(e, i), 4))

\* JordanIndicators.trade_balance_usd_billion(self)
trade_balance_usd_billion(self) ==
    IF IsNone(self.export_usd_billion) \/ IsNone(self.import_usd_billion) THEN None
    ELSE Some(Round(DecSub(Val(self.export_usd_billion), Val(self.import_usd_billion)), 4))

\* (\d+(?:\.\d+)?)\s*~\s*(\d+(?:\.\d+)?)
RangeRe ==
    Compile(<<Open(1), Plus("d"), OptGroup(<<L("."), Plus("d")>>), Close(1), WS, L("~"), WS,
          Open(2), Plus("d"), OptGroup(<<L("."), Plus("d")>>), Close(2)>>)

\* agri_mid of plot_sectors: the midpoint of the range text, else its float.
agri_mid(range) ==
    IF ReMatch(RangeRe, range).ok
    THEN Some(DecHalf(DecAdd(FloatValue(Group(ReMatch(RangeRe, range), range, 1)),
                             FloatValue(Group(ReMatch(RangeRe, range), range, 2)))))
    ELSE safe_float(range)

Hundred == Dec(100, 0)
Zero == Dec(0, 0)
DecLess(x, y) == LET d == Max2(x.d, y.d) IN Scaled(x, d) < Scaled(y, d)

\* plot_trade(ind): the bars drawn, or the info box when a value is missing.
plot_trade(i) ==
    IF IsNone(i.export_usd_billion) \/ IsNone(i.import_usd_billion)
    THEN [kind |-> "trade_info", data |-> <<>>]
    ELSE [kind |-> "trade_chart",
          data |-> <<Val(i.export_usd_billion), Val(i.import_usd_billion),
                     IF IsNone(trade_balance_usd_billion(i)) \/ Val(trade_balance_usd_billion(i)) = Zero
                     THEN Zero ELSE Val(trade_balance_usd_billion(i))>>]

\* plot_sectors(ind): the pie drawn, or the info box when a share is missing.
plot_sectors(i) ==
    IF \/ IsNone(i.sector_fin_public_pct) \/ IsNone(i.sector_manufacturing_pct)
       \/ IsNone(i.sector_ict_pct) \/ IsNone(i.sector_agri_pct_range)
    THEN [kind |-> "sector_info", data |-> <<>>]
    ELSE LET agri == IF IsSome(agri_mid(Val(i.sector_agri_pct_range)))
                     THEN Val(agri_mid(Val(i.sector_agri_pct_range))) ELSE Zero
             total == DecAdd(DecAdd(Val(i.sector_fin_public_pct), Val(i.sector_manufacturing_pct)),
                             DecAdd(Val(i.sector_ict_pct), agri))
             other == IF DecLess(Hundred, total) THEN Zero ELSE DecSub(Hundred, total)
         IN [kind |-> "sector_chart",
             data |-> <<Val(i.sector_fin_public_pct), Val(i.sector_manufacturing_pct),
                        Val(i.sector_ict_pct), agri, other>>]

(***************************************************************************)
(* SpecExtract: extract_indicators applied to bounded texts.  A text is    *)
(* up to MaxBlocks paragraphs of the country brief, joined by line feeds.  *)
(***************************************************************************)
MaxBlocks == 2

BkCountry == <<"guk", " ", "myeong", " ", ":", " ", "a", "b">>
BkCapital == <<"su", " ", "do", " ", ":", " ", "a", "b", "(", "x", ",", " ", "in", "gu", " ",
               "yak", " ", "4", "0", "0", "man", " ", "myeong", ")">>
BkArea == <<"myeon", " ", "jeok", " ", ":", " ", "8", "9", ",", "3", "4", "2", "k", "m", "2">>
BkAreaSep == <<"myeon", " ", "jeok", " ", ":", " ", ",", "k", "m", "2">>
BkPopulation == <<"in", " ", "gu", " ", ":", " ", "yak", " ", "6", "6", "1", "man", " ", "myeong">>
BkPopulationSep == <<"in", " ", "gu", " ", ":", " ", "yak", " ", ",", "man", " ", "myeong">>
BkCulture == <<"eon", " ", "eo", " ", ":", " ", "a", "(", "b", ")", "NL",
               "jong", " ", "gyo", " ", ":", " ", "d", " ", "NL",
               "guk", "ga", " ", "hyeong", "tae", " ", ":", " ", "x">>
BkGdp == <<"-", " ", "G", "D", "P", " ", ":", " ", "4", "0", "0", "eok", " ", "dal", "reo",
           "(", "2", "0", "1", "7", ")", " ", "/", " ",
           "1", "in", "dang", " ", "G", "D", "P", " ", ":", " ",
           "3", ",", "9", "8", "0", "dal", "reo", "(", "2", "0", "1", "6", ",", " ", "x", ")">>
BkGdpSep == <<"G", "D", "P", " ", ":", " ", ",", "eok", " ", "dal", "reo",
              "(", "2", "0", "1", "5", ")">>
BkPerCapitaSep == <<"1", "in", "dang", " ", "G", "D", "P", ":", ",", "dal", "reo">>
BkGrowth == <<"sil", "jil", " ", "G", "D", "P", " ", "seong", "jang", "ryul", " ", ":", " ",
              "2", ".", "1", "4", "(", "%", "2", "0", "1", "7", ")">>
BkGrowthDots == <<"sil", "jil", " ", "G", "D", "P", " ", "seong", "jang", "ryul", ":",
                  ".", ".", " ", "(", "%", " ", "2", "0", "1", "5", ")">>
BkTrade == <<"su", "chul", " ", "7", "4", "eok", " ", "9", "cheon", "man", " ", "dal", "reo",
             "(", "2", "0", "1", "7", ")", ",", " ",
             "su", "ip", " ", "2", "0", "4", "eok", " ", "6", "cheon", "man", " ", "dal", "reo",
             "(", "2", "0", "1", "8", ")">>
BkTradeSep == <<"su", "chul", " ", ",", "eok", " ", "dal", "reo", "(", "2", "0", "1", "7", ")", ",",
                "su", "ip", " ", "5", "eok", " ", "dal", "reo", "(", "2", "0", "1", "7", ")">>
BkUnemployment == <<"-", " ", "sil", "eop", "ryul", " ", ":", " ", "1", "8", ".", "5", "%",
                    "(", "2", "0", "1", "7", ")">>
BkYouth == <<"(", "cheong", "nyeon", "sil", "eop", "ryul", "eun", " ", "3", "0", "%", ")">>
BkSector == <<"jeon", "che", " ", "G", "D", "P", "ui", " ", "yak", " ", "5", "1", "%", ",", " ",
              "je", "jo", "eop", "eun", " ", "G", "D", "P", "ui", " ", "1", "9", "%", ",", " ",
              "I", "C", "T", " ", "1", "4", "%", ",", " ",
              "nong", "eop", "eun", " ", "3", "~", "4", "%">>
\* one line holding two labelled fields: the country capture runs over the area label
BkCountryArea == <<"guk", "myeong", ":", "a", " ", "myeon", "jeok", ":", "5", "k", "m", "2">>

\* Paragraphs of the country brief, as pdfplumber returns them, and variants
\* whose number is made of separator characters only.
Blocks ==
    {BkCountry, BkCapital, BkArea, BkAreaSep, BkPopulation, BkPopulationSep, BkCulture,
     BkGdp, BkGdpSep, BkPerCapitaSep, BkGrowth, BkGrowthDots, BkTrade, BkTradeSep,
     BkUnemployment, BkYouth, BkSector, BkCountryArea}

Texts == {Join(<<"NL">>, bs) : bs \in StringsUpTo(Blocks, MaxBlocks)}

ExtractInit ==
    /\ uploaded = None
    /\ use_default = TRUE
    /\ fs = None
    /\ cache = {}
    /\ acq = NoCall
    /\ ind = NoResult
    /\ shown = <<>>
    /\ runs = 0
    /\ arg = <<>>
    /\ ret = None
    /\ pc = "extract_input"
    /\ text \in {Some(t) : t \in Texts}

CallExtract ==
    /\ pc = "extract_input"
    /\ ind' = extract_indicators(Val(text))
    /\ pc' = "extract_returned"
    /\ UNCHANGED <<uploaded, use_default, fs, cache, acq, text, shown, runs, arg, ret>>

ExtractNext == CallExtract

SpecExtract == ExtractInit /\ [][ExtractNext]_vars

Returned == pc = "extract_returned" /\ ~ind.raised
Record == Val(ind.ind)

\* C5: extract_indicators returns a record for every text; a rule whose
\* capture cannot be converted leaves its field None and never raises.
C5_NeverRaises == pc = "extract_returned" => ~ind.raised

\* C9: youth_unemployment_pct is present only if the primary unemployment
\* rule matched; a text with the youth phrase but no primary match leaves it
\* None.
C9_YouthOnlyWithPrimary ==
    Returned =>
        /\ IsSome(Record.youth_unemployment_pct) => IsSome(Record.unemployment_year)
        /\ (ReSearch(YouthRe, Val(text)).ok /\ ~ReSearch(UnemploymentRe, Val(text)).ok)
              => IsNone(Record.youth_unemployment_pct)

\* C9 witness: the youth phrase alone in the text, and the record returned
\* without the youth field.
C9_Witness ==
    /\ Returned
    /\ text = Some(BkYouth)
    /\ ReSearch(YouthRe, Val(text)).ok
    /\ IsNone(Record.youth_unemployment_pct)

\* C10: the value and the year of a large-currency rule are populated
\* together: gdp_usd_billion iff gdp_year; export, import and trade_year all
\* or none, trade_year being the export side's year.
C10_ValueAndYearTogether ==
    Returned =>
        /\ IsSome(Record.gdp_usd_billion) <=> IsSome(Record.gdp_year)
        /\ IsSome(Record.export_usd_billion) <=> IsSome(Record.trade_year)
        /\ IsSome(Record.import_usd_billion) <=> IsSome(Record.trade_year)
        /\ IsSome(Record.trade_year) =>
              Record.trade_year =
                  Some(DigitsToInt(Group(ReSearch(TradeRe, Val(text)), Val(text), 2)))

(***************************************************************************)
(* Field independence: corrupting the label one rule matched.              *)
(***************************************************************************)
Rules == {"country", "capital", "area", "population", "language", "religion", "government",
          "gdp", "percapita", "growth", "trade", "unemployment", "youth", "sector"}

FieldNames == DOMAIN EmptyIndicators

\* The fields a rule assigns.
Owned(X) ==
    CASE X = "country" -> {"country_name"}
      [] X = "capital" -> {"capital", "capital_population_hint"}
      [] X = "area" -> {"area_km2"}
      [] X = "population" -> {"population_million"}
      [] X = "language" -> {"language"}
      [] X = "religion" -> {"religion"}
      [] X = "government" -> {"government_form"}
      [] X = "gdp" -> {"gdp_year", "gdp_usd_billion"}
      [] X = "percapita" -> {"gdp_per_capita_year", "gdp_per_capita_usd"}
      [] X = "growth" -> {"real_gdp_growth_year", "real_gdp_growth_pct"}
      [] X = "trade" -> {"trade_year", "export_usd_billion", "import_usd_billion"}
      [] X = "unemployment" -> {"unemployment_year", "unemployment_pct"}
      [] X = "youth" -> {"youth_unemployment_pct"}
      [] X = "sector" -> {"sector_fin_public_pct", "sector_manufacturing_pct",
                          "sector_ict_pct", "sector_agri_pct_range"}

\* The fields of other rules that a rule's match decides.
Dependent(X) == IF X = "unemployment" THEN {"youth_unemployment_pct"} ELSE {}

\* The match of every rule on text t.
MatchesOf(t) ==
    [country |-> ReSearch(CountryRe, t), capital |-> ReSearch(CapitalRe, t),
     area |-> ReSearch(AreaRe, t), population |-> ReSearch(PopulationRe, t),
     language |-> ReSearch(LanguageRe, t), religion |-> ReSearch(ReligionRe, t),
     government |-> ReSearch(GovernmentRe, t), gdp |-> ReSearch(GdpRe, t),
     percapita |-> ReSearch(GdpPerCapitaRe, t), growth |-> GrowthSearch(t),
     trade |-> ReSearch(TradeRe, t), unemployment |-> ReSearch(UnemploymentRe, t),
     youth |-> YouthSearch(t, ReSearch(UnemploymentRe, t)), sector |-> ReSearch(SectorRe, t)]

\* The text with the first character of the matched label replaced by a
\* character no rule names.
Corrupted(t, m) == [t EXCEPT ![m.start] = "#"]

\* The label rule X matched lies outside the text every other rule matched.
Disjoint(ms, X) ==
    \A Y \in Rules \ {X} :
        ms[Y].ok => ~(ms[Y].start <= ms[X].start /\ ms[X].start < ms[Y].end)

SameFields(r1, r2, F) == \A f \in F : Val(r1.ind)[f] = Val(r2.ind)[f]

SameAfter(r1, r2, F) == ~r2.raised => SameFields(r1, r2, F)

\* Corrupting the label of any rule with a disjoint match changes, when a
\* record is still returned, no field outside Owned(X) and, with
\* allowDependent, outside Dependent(X).
IndependentOn(t, r, ms, allowDependent) ==
    \A X \in Rules :
        (ms[X].ok /\ Disjoint(ms, X)) =>
            SameAfter(r, extract_indicators(Corrupted(t, ms[X])),
                      FieldNames \ (Owned(X) \cup IF allowDependent THEN Dependent(X) ELSE {}))

MaxAssigns == 1

\* USD billion values with up to four decimals.
BillionValues ==
    {Dec(0, 0), Dec(749, 2), Dec(2046, 2), Dec(40, 0), Dec(5, 1), Dec(12345, 4), Dec(1, 4)}

OptBillion == {None} \cup {Some(v) : v \in BillionValues}

RecordInit ==
    /\ uploaded = None
    /\ use_default = TRUE
    /\ fs = None
    /\ cache = {}
    /\ acq = NoCall
    /\ text = None
    /\ shown = <<>>
    /\ runs = 0
    /\ arg = <<>>
    /\ ret = None
    /\ pc = "record_built"
    /\ \E e \in OptBillion, i \in OptBillion :
          ind = [raised |-> FALSE,
                 ind |-> Some([EmptyIndicators EXCEPT !.export_usd_billion = e,
                                                      !.import_usd_billion = i])]

CallTradeBalance ==
    /\ pc = "record_built"
    /\ ret' = trade_balance_usd_billion(Val(ind.ind))
    /\ pc' = "balance_returned"
    /\ UNCHANGED <<uploaded, use_default, fs, cache, acq, text, ind, shown, runs, arg>>

\* ind.export_usd_billion = e; ind.import_usd_billion = i
AssignTrade(e, i) ==
    /\ pc = "balance_returned"
    /\ runs < MaxAssigns
    /\ ind' = [ind EXCEPT !.ind = Some([Val(ind.ind) EXCEPT !.export_usd_billion = e,
                                                            !.import_usd_billion = i])]
    /\ runs' = runs + 1
    /\ pc' = "record_built"
    /\ UNCHANGED <<uploaded, use_default, fs, cache, acq, text, shown, arg, ret>>

RecordNext ==
    \/ CallTradeBalance
    \/ \E e \in OptBillion, i \in OptBillion : AssignTrade(e, i)

SpecRecord == RecordInit /\ [][RecordNext]_vars

\* C2: the balance returned is export minus import of the record's current
\* fields (balance + import = export) when both are present and None when
\* either is absent, on every call; the record has no balance field.
C2_TradeBalance ==
    pc = "balance_returned" =>
        LET r == Val(ind.ind) IN
        /\ (IsSome(r.export_usd_billion) /\ IsSome(r.import_usd_billion)) =>
              /\ IsSome(ret)
              /\ DecAdd(Val(ret), Val(r.import_usd_billion)) = Val(r.export_usd_billion)
        /\ (IsNone(r.export_usd_billion) \/ IsNone(r.import_usd_billion)) => ret = None
        /\ DOMAIN r = FieldNames
        /\ "trade_balance_usd_billion" \notin DOMAIN r

\* C2 witness: a second call, after the fields were assigned 7.49 and 20.46,
\* returns -12.97.
C2_Witness ==
    /\ pc = "balance_returned"
    /\ runs = 1
    /\ Val(ind.ind).export_usd_billion = Some([n |-> 749, d |-> 2])
    /\ Val(ind.ind).import_usd_billion = Some([n |-> 2046, d |-> 2])
    /\ ret = Some([n |-> 0 - 1297, d |-> 2])

(***************************************************************************)
(* SpecMidpoint: plot_sectors applied to records whose agriculture range   *)
(* text is drawn from bounded strings.                                     *)
(***************************************************************************)
MaxRangeLen == 4

RangeAlphabet == {"3", "4", "5", "~", ".", "-", " ", "b"}

RangeExamples == {<<"b", "a", "d">>, <<"3", "~", "4", "~", "5">>, <<"1", ".", "5", " ", "~", " ", "2", ".", "5">>}

RangeInputs == StringsUpTo(RangeAlphabet, MaxRangeLen) \cup RangeExamples

MidpointInit ==
    /\ uploaded = None
    /\ use_default = TRUE
    /\ fs = None
    /\ cache = {}
    /\ acq = NoCall
    /\ text = None
    /\ shown = <<>>
    /\ runs = 0
    /\ ret = None
    /\ pc = "sectors_input"
    /\ arg \in RangeInputs
    /\ ind = [raised |-> FALSE,
              ind |-> Some([EmptyIndicators EXCEPT !.sector_fin_public_pct = Some(Dec(51, 0)),
                                                   !.sector_manufacturing_pct = Some(Dec(19, 0)),
                                                   !.sector_ict_pct = Some(Dec(14, 0)),
                                                   !.sector_agri_pct_range = Some(arg)])]

CallPlotSectors ==
    /\ pc = "sectors_input"
    /\ ret' = agri_mid(Val(Val(ind.ind).sector_agri_pct_range))
    /\ shown' = <<plot_sectors(Val(ind.ind))>>
    /\ pc' = "sectors_plotted"
    /\ UNCHANGED <<uploaded, use_default, fs, cache, acq, text, ind, runs, arg>>

MidpointNext == CallPlotSectors

SpecMidpoint == MidpointInit /\ [][MidpointNext]_vars

\* A number as the range pattern reads it: digits, optionally a point and digits.
IsPlainNumber(x) ==
    /\ x # <<>>
    /\ AllIn(x, Digits \cup {"."})
    /\ Len(SelectSeq(x, LAMBDA c : c = ".")) <= 1
    /\ x[1] \in Digits
    /\ x[Len(x)] \in Digits

\* The string is '<low>~<high>', white space allowed around the separator.
IsRangeForm(x) ==
    \E i \in 1..Len(x) :
        /\ x[i] = "~"
        /\ IsPlainNumber(Strip(SubSeq(x, 1, i - 1)))
        /\ IsPlainNumber(Strip(SubSeq(x, i + 1, Len(x))))
        /\ SubSeq(x, 1, i - 1) = LStrip(SubSeq(x, 1, i - 1))
        /\ SubSeq(x, i + 1, Len(x)) = RStrip(SubSeq(x, i + 1, Len(x)))

LowOf(x) == FloatValue(Strip(SubSeq(x, 1, (CHOOSE i \in 1..Len(x) : x[i] = "~") - 1)))
HighOf(x) == FloatValue(Strip(SubSeq(x, (CHOOSE i \in 1..Len(x) : x[i] = "~") + 1, Len(x))))

\* The string is a single bare number, as float() reads one.
IsBareNumber(x) == IsFloatLiteral(Strip(x))

\* C8: '<low>~<high>' gives the mean of low and high (twice the result is
\* low + high), a single bare number gives that number, and a string of
\* neither form gives None.
C8_RangeMidpoint ==
    pc = "sectors_plotted" =>
        /\ IsRangeForm(arg) => (IsSome(ret) /\ DecAdd(Val(ret), Val(ret)) = DecAdd(LowOf(arg), HighOf(arg)))
        /\ IsBareNumber(arg) => ret = Some(FloatValue(Strip(arg)))
        /\ (~IsRangeForm(arg) /\ ~IsBareNumber(arg)) => ret = None

(***************************************************************************)
(* Spec: runs of the Streamlit script.  Each run reads the sidebar         *)
(* widgets, loads the text through the cached extract_text_from_pdf,       *)
(* stops on blank text, extracts the indicators and renders.  Between      *)
(* runs the user may change the widgets and the file at the default path   *)
(* may change.                                                             *)
(***************************************************************************)
MaxRuns == 2

DEFAULT_PDF_PATH == "/mnt/data/2018 yoreudan gaehwang(2018.12).pdf"

\* A document: whether pdfplumber can open it, and what extract_text()
\* gives for each page (None for a page without text).
DocTrade == [valid |-> TRUE, pages |-> <<Some(BkTrade)>>]
DocBrief == [valid |-> TRUE, pages |-> <<Some(BkGdp), None, Some(BkSector)>>]
DocNoText == [valid |-> TRUE, pages |-> <<None, Some(<<>>)>>]
DocAreaSep == [valid |-> TRUE, pages |-> <<Some(BkAreaSep)>>]
DocCorrupt == [valid |-> FALSE, pages |-> <<>>]

UploadChoices == {None, Some(DocTrade), Some(DocNoText)}
FileChoices == {None, Some(DocBrief), Some(DocNoText), Some(DocAreaSep), Some(DocCorrupt)}

TextReturned(t) == [kind |-> "returned", text |-> t]
TextRaised == [kind |-> "raised", text |-> <<>>]

\* [p.extract_text() or "" for p in pdf.pages]
PageTexts(pages) == [k \in 1..Len(pages) |-> IF IsNone(pages[k]) THEN <<>> ELSE Val(pages[k])]

\* with pdfplumber.open(src) as pdf: ... return "\n".join(text_all)
ReadPdf(src) ==
    IF IsNone(src) \/ ~Val(src).valid THEN TextRaised
    ELSE TextReturned(Join(<<"NL">>, PageTexts(Val(src).pages)))

\* The body with a missing source rejected instead of read as empty text.
extract_text_from_pdfRejectsNoInput(file_bytes, file_path, files) ==
    IF IsSome(file_bytes) THEN {ReadPdf(file_bytes), TextRaised}
    ELSE IF IsNone(file_path) \/ Val(file_path) = "" THEN {TextRaised}
    ELSE {ReadPdf(files)}

\* The body of extract_text_from_pdf: the outcomes of one uncached call.
\* pdfplumber.open is documented for a path or a file object; handed the
\* raw bytes it opens the document or raises, depending on the library.
extract_text_from_pdf(file_bytes, file_path, files) ==
    IF IsSome(file_bytes) THEN {ReadPdf(file_bytes), TextRaised}
    ELSE IF IsNone(file_path) \/ Val(file_path) = "" THEN {TextReturned(<<>>)}
    ELSE {ReadPdf(files)}

\* @st.cache_data: the entry stored for these arguments, if any.
CacheHit(file_bytes, file_path) ==
    {e \in cache : e.file_bytes = file_bytes /\ e.file_path = file_path}

\* not text
IsBlankUnstripped(t) == t = <<>>

\* not text.strip()
IsBlank(t) == Strip(t) = <<>>

ErrorBox == [kind |-> "error", data |-> <<>>]
ExceptionBox == [kind |-> "exception", data |-> <<>>]

OrNA(value) == IF IsNone(value) THEN <<"N/A">> ELSE value

\* build_kpi_table(ind): the Value column.
build_kpi_table(i) ==
    <<i.country_name, i.capital, i.capital_population_hint, i.area_km2, i.population_million,
      i.language, i.religion, i.government_form, i.gdp_year, i.gdp_usd_billion,
      i.gdp_per_capita_year, i.gdp_per_capita_usd, i.real_gdp_growth_year, i.real_gdp_growth_pct,
      i.trade_year, i.export_usd_billion, i.import_usd_billion, trade_balance_usd_billion(i),
      i.unemployment_year, i.unemployment_pct, i.youth_unemployment_pct,
      i.sector_fin_public_pct, i.sector_manufacturing_pct, i.sector_ict_pct,
      i.sector_agri_pct_range>>

Between == {"idle", "done", "stopped", "crashed"}

Init ==
    /\ Idle
    /\ pc = "idle"
    /\ arg = <<>>
    /\ ret = None

\* The file at DEFAULT_PDF_PATH is replaced, removed or created.
ChangeFile(d) ==
    /\ pc \in Between
    /\ runs < MaxRuns
    /\ d # fs
    /\ fs' = d
    /\ UNCHANGED <<pc, uploaded, use_default, cache, acq, text, ind, shown, runs, arg, ret>>

\* A run starts: the sidebar widgets give uploaded and use_default.
Rerun(up, ud) ==
    /\ pc \in Between
    /\ runs < MaxRuns
    /\ uploaded' = up
    /\ use_default' = ud
    /\ runs' = runs + 1
    /\ acq' = NoCall
    /\ text' = None
    /\ ind' = NoResult
    /\ shown' = <<>>
    /\ pc' = "load"
    /\ UNCHANGED <<fs, cache, arg, ret>>

pdf_path == IF use_default THEN Some(DEFAULT_PDF_PATH) ELSE None

\* text = extract_text_from_pdf(file_bytes=file_bytes, file_path=pdf_path)
LoadText ==
    /\ pc = "load"
    /\ IF CacheHit(uploaded, pdf_path) # {}
       THEN /\ \E e \in CacheHit(uploaded, pdf_path) :
                  /\ acq' = TextReturned(e.text)
                  /\ text' = Some(e.text)
            /\ pc' = "loaded"
            /\ UNCHANGED <<cache, shown>>
       ELSE \E o \in extract_text_from_pdf(uploaded, pdf_path, fs) :
              /\ acq' = o
              /\ IF o.kind = "raised"
                 THEN /\ pc' = "crashed"
                      /\ shown' = <<ExceptionBox>>
                      /\ UNCHANGED <<cache, text>>
                 ELSE /\ pc' = "loaded"
                      /\ text' = Some(o.text)
                      /\ cache' = cache \cup {[file_bytes |-> uploaded, file_path |-> pdf_path,
                                              text |-> o.text]}
                      /\ UNCHANGED shown
    /\ UNCHANGED <<uploaded, use_default, fs, ind, runs, arg, ret>>

\* if not text.strip(): st.error(...); st.stop()
CheckText ==
    /\ pc = "loaded"
    /\ IF IsBlank(Val(text))
       THEN /\ shown' = Append(shown, ErrorBox)
            /\ pc' = "stopped"
       ELSE /\ pc' = "extract"
            /\ UNCHANGED shown
    /\ UNCHANGED <<uploaded, use_default, fs, cache, acq, text, ind, runs, arg, ret>>

\* ind = extract_indicators(text)
Extract ==
    /\ pc = "extract"
    /\ ind' = extract_indicators(Val(text))
    /\ IF ind'.raised
       THEN /\ pc' = "crashed"
            /\ shown' = Append(shown, ExceptionBox)
       ELSE /\ pc' = "kpi"
            /\ UNCHANGED shown
    /\ UNCHANGED <<uploaded, use_default, fs, cache, acq, text, runs, arg, ret>>

\* with col1: the KPI cards, the country profile, the youth note.
RenderKpi ==
    /\ pc = "kpi"
    /\ LET i == Val(ind.ind) IN
       shown' = shown \o
           <<[kind |-> "kpi",
              data |-> <<format_optional(i.gdp_usd_billion), format_optional(i.gdp_per_capita_usd),
                         format_optional(i.unemployment_pct),
                         format_optional(trade_balance_usd_billion(i))>>],
             [kind |-> "profile",
              data |-> <<OrNA(i.country_name), OrNA(i.capital), i.capital_population_hint,
                         format_optional(i.area_km2), format_optional(i.population_million),
                         OrNA(i.language), OrNA(i.religion), OrNA(i.government_form)>>]>>
           \o (IF IsSome(i.youth_unemployment_pct)
               THEN <<[kind |-> "youth_info", data |-> <<Val(i.youth_unemployment_pct)>>]>>
               ELSE <<>>)
    /\ pc' = "charts"
    /\ UNCHANGED <<uploaded, use_default, fs, cache, acq, text, ind, runs, arg, ret>>

\* with col2: plot_trade(ind); plot_sectors(ind)
RenderCharts ==
    /\ pc = "charts"
    /\ shown' = shown \o <<plot_trade(Val(ind.ind)), plot_sectors(Val(ind.ind))>>
    /\ pc' = "table"
    /\ UNCHANGED <<uploaded, use_default, fs, cache, acq, text, ind, runs, arg, ret>>

\* st.dataframe(build_kpi_table(ind)); the raw text preview when ticked.
RenderTable(show_raw_text) ==
    /\ pc = "table"
    /\ shown' = shown \o <<[kind |-> "table", data |-> build_kpi_table(Val(ind.ind))]>>
                     \o (IF show_raw_text THEN <<[kind |-> "raw_text", data |-> Val(text)]>>
                         ELSE <<>>)
    /\ pc' = "done"
    /\ UNCHANGED <<uploaded, use_default, fs, cache, acq, text, ind, runs, arg, ret>>

Next ==
    \/ \E d \in FileChoices : ChangeFile(d)
    \/ \E up \in UploadChoices, ud \in BOOLEAN : Rerun(up, ud)
    \/ LoadText
    \/ CheckText
    \/ Extract
    \/ RenderKpi
    \/ RenderCharts
    \/ \E show_raw_text \in BOOLEAN : RenderTable(show_raw_text)

Spec == Init /\ [][Next]_vars

\* The call of this run was made with neither a byte buffer nor a path.
CalledWithNoInput == acq.kind # "none" /\ IsNone(uploaded) /\ IsNone(pdf_path)

Rendered == \E i \in 1..Len(shown) : shown[i].kind \notin {"error", "exception"}

\* C6: in every run, extraction and every rendering step happen only after
\* the load returned a text that is not blank; when the load raises, the run
\* ends with the exception shown and nothing else; when the text is blank,
\* the run stops with the error message, and in neither case is anything
\* extracted or rendered.
C6_HaltsWithoutUsableText ==
    /\ (pc \in {"extract", "kpi", "charts", "table", "done"} \/ ind # NoResult \/ Rendered) =>
          /\ acq.kind = "returned"
          /\ text = Some(acq.text)
          /\ Strip(acq.text) # <<>>
    /\ acq.kind = "raised" =>
          /\ pc = "crashed"
          /\ text = None
          /\ ind = NoResult
          /\ shown = <<ExceptionBox>>
    /\ (acq.kind = "returned" /\ Strip(acq.text) = <<>>) =>
          /\ pc \in {"loaded", "stopped"}
          /\ ind = NoResult
          /\ shown = IF pc = "stopped" THEN <<ErrorBox>> ELSE <<>>
    /\ pc = "stopped" => (acq.kind = "returned" /\ Strip(acq.text) = <<>>)

\* C6 witness: a document whose pages hold no text gave a text of one line
\* feed, and the run stopped with the error message.
C6_Witness ==
    /\ pc = "stopped"
    /\ text = Some(<<"NL">>)
    /\ shown = <<ErrorBox>>
    /\ ind = NoResult

\* C7: the text a call of extract_text_from_pdf returns is the text its
\* arguments and the source they name give at the time of the call, whatever
\* the earlier calls were.
C7_NoStateBetweenCalls ==
    (pc = "loaded" /\ acq.kind = "returned") =>
        acq \in extract_text_from_pdf(uploaded, pdf_path, fs)

====
